---- MODULE Spec2Model ----
(***************************************************************************)
(* Email-Automation-UI: the Backend Bridge (backend_integration.py), the   *)
(* Recipient Store Facade (database.py) and their callers, as state        *)
(* machines.  Request handlers run in server threads (run.py: threaded),   *)
(* every handler drives a coroutine on its own event loop.                 *)
(***************************************************************************)
EXTENDS Integers, Sequences, FiniteSets, TLC

\* Bound on the number of EmailAutomationApp objects ever constructed.
MaxApps == 2

\* The rate limiter's parameters in the modelled calls: max_requests requests
\* per window of window_seconds seconds.
MaxRequests == 2

WindowSeconds == 60

\* Bound on the history kept of one identifier's allowed calls: no further
\* call is started beyond it.
MaxHistory == 3

\* Python's None for object references; objects are numbered from 1.
None == 0

\* The request threads of the threaded server.
Threads == {"t1", "t2"}

Apps == 1..MaxApps

BridgeOps == {"start_scheduler", "stop_scheduler", "process_due_emails", "scan_for_replies"}

AllOps == BridgeOps \cup {"get_scheduler_status", "cleanup", "get_config"}

VARIABLES
    _config,          \* BackendIntegration._config
    _db_manager,      \* BackendIntegration._db_manager
    _scheduler,       \* BackendIntegration._scheduler
    _reply_tracker,   \* BackendIntegration._reply_tracker
    _app_instance,    \* BackendIntegration._app_instance
    appState,         \* each EmailAutomationApp object's lifecycle
    nextApp,          \* the next object number
    req,              \* each thread's request: its coroutine's position and locals
    recipients,       \* table recipients: rows [id, email, status]
    email_sequence,   \* table email_sequence: rows [recipient_id, step, sent, replied]
    nextId,           \* the next recipient id of the store
    add,              \* each thread's add_recipient call: position, input, locals
    listing,          \* the result of the last get_recipients_with_status call
    session,          \* the user's Flask session: key -> stored string
    now,              \* datetime.now(), in seconds
    guard,            \* the last validate_scheduler_operation call: inputs and result
    control,          \* routes/control.py: the module's _app_instance, _scheduler, _reply_tracker
    scheduler_running, \* whether the scheduler of routes/control.py runs
    ctl,              \* the last start / stop request of the control panel
    calc,             \* the last call of a display / safety helper: input and result
    requests,         \* RateLimiter.requests: identifier -> list of request times
    rl,               \* each thread's is_allowed call: position and locals
    allowed,          \* history: identifier -> times of the calls that were allowed
    form              \* each thread's POST to the add-recipient form

bridgeVars == <<_config, _db_manager, _scheduler, _reply_tracker, _app_instance, appState, nextApp, req>>

storeVars == <<recipients, email_sequence, nextId, add>>

uiVars == <<listing, session, now, guard>>

controlVars == <<control, scheduler_running, ctl>>

rateVars == <<requests, rl, allowed>>

restVars == <<controlVars, calc, rateVars, form>>

vars == <<bridgeVars, storeVars, uiVars, restVars>>

otherThanBridge == <<storeVars, uiVars, restVars>>

otherThanStore == <<bridgeVars, uiVars, restVars>>

-----------------------------------------------------------------------------
(* Results handed to the caller *)

NoOutcome == [kind |-> "pending", ok |-> FALSE, msg |-> ""]

Tuple(ok, msg) == [kind |-> "tuple", ok |-> ok, msg |-> msg]

\* run_async_safely re-raises what the coroutine raised.
Raised == [kind |-> "raise", ok |-> FALSE, msg |-> "exception"]

ReturnsNone == [kind |-> "None", ok |-> FALSE, msg |-> ""]

StatusDict(ok) == [kind |-> "dict", ok |-> ok, msg |-> IF ok THEN "status" ELSE "error"]

SuccessMsg(o) ==
    CASE o = "start_scheduler" -> "Scheduler started successfully"
      [] o = "stop_scheduler" -> "Scheduler stopped successfully"
      [] o = "process_due_emails" -> "Email processing completed"
      [] o = "scan_for_replies" -> "Reply scanning completed"

NotAvailableMsg(o) ==
    IF o = "scan_for_replies" THEN "Reply tracker not available" ELSE "Scheduler not available"

ErrorMsg(o) ==
    CASE o = "start_scheduler" -> "Error starting scheduler"
      [] o = "stop_scheduler" -> "Error stopping scheduler"
      [] o = "process_due_emails" -> "Error processing emails"
      [] o = "scan_for_replies" -> "Error scanning replies"

OpExceptReraise(o) == Raised

\* The `except Exception` clause of the four bridged operations.
OpExcept(o) == Tuple(FALSE, ErrorMsg(o))

-----------------------------------------------------------------------------
(* Requests *)

FreshRequest(o, p) ==
    [pc |-> p, op |-> o, out |-> NoOutcome, inited |-> "no", callFailed |-> FALSE,
     work |-> "none", local |-> None, target |-> None, tmpDb |-> "none", tmpSched |-> FALSE]

EntryPc(o) ==
    CASE o \in BridgeOps -> "check_app"
      [] o = "get_scheduler_status" -> "st_open"
      [] o = "cleanup" -> "cl_check"
      [] o = "get_config" -> "cfg"

\* A step of a bridge request: it changes the request's record, and nothing
\* outside the bridge.
Set(t, r) == req' = [req EXCEPT ![t] = r] /\ UNCHANGED otherThanBridge

\* app.scheduler / app.reply_tracker: set by a successful initialize().
ComponentOf(a) == IF appState[a] = "ready" THEN a ELSE None

AlwaysInit == TRUE

\* `if not self._app_instance`
NeedsInit == _app_instance = None

TargetOf(o) == IF o = "scan_for_replies" THEN _reply_tracker ELSE _scheduler

RunWithoutWaiting(r) == r.pc # "idle"

\* loop.run_until_complete(coro): the caller resumes when the coroutine has ended.
RunUntilComplete(r) == r.pc = "end"

\* An add_recipient call that has not started.
IdleAdd ==
    [pc |-> "idle", data |-> [first_name |-> <<>>, company |-> <<>>, email |-> <<>>],
     out |-> NoOutcome, rid |-> None, nsteps |-> 0,
     dupAtStart |-> FALSE, rowAtStart |-> FALSE, fault |-> FALSE, touched |-> FALSE]

\* No get_recipients_with_status call was made.
NoListing == [state |-> "none", fault |-> FALSE, rows |-> <<>>]

\* A value a dict.get() does not find.
Absent == <<"<absent>">>

SessionKeys == {"scheduler_last_start", "scheduler_last_stop"}

\* No validate_scheduler_operation call was made.
NoGuard == [action |-> "none", current_status |-> FALSE, session |-> [k \in SessionKeys |-> Absent],
            at |-> 0, out |-> NoOutcome]

\* No start / stop request was made.
NoCtl == [action |-> "none", running |-> FALSE, session |-> [k \in SessionKeys |-> Absent], at |-> 0,
          invoked |-> FALSE, response |-> "none"]

\* No helper was called.
NoCalc == [fn |-> "none"]

Identifiers == {"ip1", "ip2"}

\* An is_allowed call that has not started.
IdleLimit == [pc |-> "idle", identifier |-> "ip1", current_time |-> 0, kept |-> <<>>, prior |-> 0, out |-> FALSE]

\* No POST is being handled.
NoForm == [state |-> "none", data |-> [first_name |-> <<>>, company |-> <<>>, role |-> <<>>, email |-> <<>>],
           wtf |-> FALSE, invoked |-> FALSE, response |-> "none", before |-> <<{}, {}>>]

\* The console's own state after start-up, the store aside.
InitConsole ==
    /\ listing = NoListing
    /\ session = [k \in SessionKeys |-> Absent]
    /\ now = 0
    /\ guard = NoGuard
    /\ control = [_app_instance |-> None, _scheduler |-> None, _reply_tracker |-> None]
    /\ scheduler_running = FALSE
    /\ ctl = NoCtl
    /\ calc = NoCalc
    /\ requests = [i \in {} |-> <<>>]
    /\ rl = [t \in Threads |-> IdleLimit]
    /\ allowed = [i \in Identifiers |-> <<>>]
    /\ form = [t \in Threads |-> NoForm]

Init ==
    /\ InitConsole
    /\ _config = None
    /\ _db_manager = None
    /\ _scheduler = None
    /\ _reply_tracker = None
    /\ _app_instance = None
    /\ appState = [a \in Apps |-> "none"]
    /\ nextApp = 1
    /\ req = [t \in Threads |-> FreshRequest("none", "idle")]
    /\ recipients = {}
    /\ email_sequence = {}
    /\ nextId = 1
    /\ add = [t \in Threads |-> IdleAdd]

Call(t, o) ==
    /\ req[t].pc = "idle"
    /\ Set(t, FreshRequest(o, EntryPc(o)))
    /\ UNCHANGED <<_config, _db_manager, _scheduler, _reply_tracker, _app_instance, appState, nextApp>>

CheckApp(t) ==
    /\ req[t].pc = "check_app"
    /\ Set(t, [req[t] EXCEPT !.pc = IF NeedsInit THEN "init_construct" ELSE "check_target"])
    /\ UNCHANGED <<_config, _db_manager, _scheduler, _reply_tracker, _app_instance, appState, nextApp>>

\* _initialize_app: Config(); self._app_instance = EmailAutomationApp(config)
InitConstruct(t) ==
    /\ req[t].pc = "init_construct"
    /\ \/ /\ Set(t, [req[t] EXCEPT !.pc = "end", !.inited = "failed", !.out = OpExcept(req[t].op)])
          /\ UNCHANGED <<_app_instance, appState, nextApp>>
       \/ /\ nextApp <= MaxApps
          /\ _app_instance' = nextApp
          /\ appState' = [appState EXCEPT ![nextApp] = "constructed"]
          /\ nextApp' = nextApp + 1
          /\ Set(t, [req[t] EXCEPT !.pc = "init_call"])
    /\ UNCHANGED <<_config, _db_manager, _scheduler, _reply_tracker>>

\* await self._app_instance.initialize(): the call
InitCall(t) ==
    /\ req[t].pc = "init_call"
    /\ IF _app_instance = None
       THEN /\ Set(t, [req[t] EXCEPT !.pc = "end", !.inited = "failed", !.out = OpExcept(req[t].op)])
            /\ UNCHANGED appState
       ELSE /\ Set(t, [req[t] EXCEPT !.pc = "init_await", !.local = _app_instance, !.work = "pending"])
            /\ appState' = [appState EXCEPT ![_app_instance] =
                               IF @ = "constructed" THEN "initializing" ELSE @]
    /\ UNCHANGED <<_config, _db_manager, _scheduler, _reply_tracker, _app_instance, nextApp>>

\* await self._app_instance.initialize(): its completion, or its failure
InitAwait(t) ==
    /\ req[t].pc = "init_await"
    /\ \/ /\ appState' = [appState EXCEPT ![req[t].local] = "ready"]
          /\ Set(t, [req[t] EXCEPT !.pc = "set_sched", !.work = "settled"])
       \/ /\ appState' = [appState EXCEPT ![req[t].local] = "failed"]
          /\ Set(t, [req[t] EXCEPT !.pc = "end", !.work = "settled", !.inited = "failed",
                                   !.out = OpExcept(req[t].op)])
    /\ UNCHANGED <<_config, _db_manager, _scheduler, _reply_tracker, _app_instance, nextApp>>

\* self._scheduler = self._app_instance.scheduler
SetSched(t) ==
    /\ req[t].pc = "set_sched"
    /\ IF _app_instance = None
       THEN /\ Set(t, [req[t] EXCEPT !.pc = "end", !.inited = "failed", !.out = OpExcept(req[t].op)])
            /\ UNCHANGED _scheduler
       ELSE /\ _scheduler' = ComponentOf(_app_instance)
            /\ Set(t, [req[t] EXCEPT !.pc = "set_tracker"])
    /\ UNCHANGED <<_config, _db_manager, _reply_tracker, _app_instance, appState, nextApp>>

\* self._reply_tracker = self._app_instance.reply_tracker
SetTracker(t) ==
    /\ req[t].pc = "set_tracker"
    /\ IF _app_instance = None
       THEN /\ Set(t, [req[t] EXCEPT !.pc = "end", !.inited = "failed", !.out = OpExcept(req[t].op)])
            /\ UNCHANGED _reply_tracker
       ELSE /\ _reply_tracker' = ComponentOf(_app_instance)
            /\ Set(t, [req[t] EXCEPT !.pc = "check_target", !.inited = "ok"])
    /\ UNCHANGED <<_config, _db_manager, _scheduler, _app_instance, appState, nextApp>>

\* `if self._scheduler:` / `if self._reply_tracker:`
CheckTarget(t) ==
    /\ req[t].pc = "check_target"
    /\ IF TargetOf(req[t].op) # None
       THEN Set(t, [req[t] EXCEPT !.pc = "call"])
       ELSE Set(t, [req[t] EXCEPT !.pc = "end", !.out = Tuple(FALSE, NotAvailableMsg(req[t].op))])
    /\ UNCHANGED <<_config, _db_manager, _scheduler, _reply_tracker, _app_instance, appState, nextApp>>

\* self._scheduler.start() / .shutdown() / .process_due_emails(), self._reply_tracker.scan_inbox()
CallBegin(t) ==
    /\ req[t].pc = "call"
    /\ IF TargetOf(req[t].op) = None
       THEN Set(t, [req[t] EXCEPT !.pc = "end", !.callFailed = TRUE, !.out = OpExcept(req[t].op)])
       ELSE Set(t, [req[t] EXCEPT !.pc = "call_await", !.target = TargetOf(req[t].op), !.work = "pending"])
    /\ UNCHANGED <<_config, _db_manager, _scheduler, _reply_tracker, _app_instance, appState, nextApp>>

CallFinish(t) ==
    /\ req[t].pc = "call_await"
    /\ \/ Set(t, [req[t] EXCEPT !.pc = "end", !.work = "settled",
                                !.out = Tuple(TRUE, SuccessMsg(req[t].op))])
       \/ Set(t, [req[t] EXCEPT !.pc = "end", !.work = "settled", !.callFailed = TRUE,
                                !.out = OpExcept(req[t].op)])
    /\ UNCHANGED <<_config, _db_manager, _scheduler, _reply_tracker, _app_instance, appState, nextApp>>

\* run_async_safely hands the coroutine's result to the request handler.
Return(t) ==
    /\ RunUntilComplete(req[t])
    /\ Set(t, FreshRequest("none", "idle"))
    /\ UNCHANGED <<_config, _db_manager, _scheduler, _reply_tracker, _app_instance, appState, nextApp>>

-----------------------------------------------------------------------------
(* get_scheduler_status: a temporary DatabaseManager and SequenceScheduler *)

\* get_database_manager: Config(); DatabaseManager(config.database_url)
StOpen(t) ==
    /\ req[t].pc = "st_open"
    /\ \/ Set(t, [req[t] EXCEPT !.pc = "end", !.out = StatusDict(FALSE)])
       \/ Set(t, [req[t] EXCEPT !.pc = "st_db_await", !.tmpDb = "constructed", !.work = "pending"])
    /\ UNCHANGED <<_config, _db_manager, _scheduler, _reply_tracker, _app_instance, appState, nextApp>>

\* await db_manager.initialize(); on success SequenceScheduler(config, db_manager)
\* and the call of scheduler.get_scheduler_status()
StDbAwait(t) ==
    /\ req[t].pc = "st_db_await"
    /\ \/ Set(t, [req[t] EXCEPT !.pc = "st_status_await", !.tmpDb = "open", !.tmpSched = TRUE])
       \/ Set(t, [req[t] EXCEPT !.pc = "st_close", !.out = StatusDict(FALSE)])
    /\ UNCHANGED <<_config, _db_manager, _scheduler, _reply_tracker, _app_instance, appState, nextApp>>

\* await scheduler.get_scheduler_status()
StStatusAwait(t) ==
    /\ req[t].pc = "st_status_await"
    /\ \E ok \in BOOLEAN : Set(t, [req[t] EXCEPT !.pc = "st_close", !.out = StatusDict(ok)])
    /\ UNCHANGED <<_config, _db_manager, _scheduler, _reply_tracker, _app_instance, appState, nextApp>>

\* finally: await db_manager.close() (a failure to close is logged)
StClose(t) ==
    /\ req[t].pc = "st_close"
    /\ Set(t, [req[t] EXCEPT !.pc = "end", !.tmpDb = "none", !.tmpSched = FALSE, !.work = "settled"])
    /\ UNCHANGED <<_config, _db_manager, _scheduler, _reply_tracker, _app_instance, appState, nextApp>>

-----------------------------------------------------------------------------
(* get_config *)

GetConfig(t) ==
    /\ req[t].pc = "cfg"
    /\ IF _config = None
       THEN \/ /\ _config' = 1
               /\ Set(t, [req[t] EXCEPT !.pc = "end", !.out = ReturnsNone])
            \/ /\ UNCHANGED _config
               /\ Set(t, [req[t] EXCEPT !.pc = "end", !.out = Raised])
       ELSE /\ UNCHANGED _config
            /\ Set(t, [req[t] EXCEPT !.pc = "end", !.out = ReturnsNone])
    /\ UNCHANGED <<_db_manager, _scheduler, _reply_tracker, _app_instance, appState, nextApp>>

-----------------------------------------------------------------------------
(* cleanup *)

\* `if self._app_instance:` and the call of self._app_instance.cleanup()
ClCheck(t) ==
    /\ req[t].pc = "cl_check"
    /\ IF _app_instance # None
       THEN Set(t, [req[t] EXCEPT !.pc = "cl_await", !.local = _app_instance, !.work = "pending"])
       ELSE Set(t, [req[t] EXCEPT !.pc = "reset_config"])
    /\ UNCHANGED <<_config, _db_manager, _scheduler, _reply_tracker, _app_instance, appState, nextApp>>

\* await self._app_instance.cleanup(): its completion, or its failure (logged)
ClAwait(t) ==
    /\ req[t].pc = "cl_await"
    /\ \/ /\ appState' = [appState EXCEPT ![req[t].local] = "cleaned"]
          /\ Set(t, [req[t] EXCEPT !.pc = "reset_config", !.work = "settled"])
       \/ /\ UNCHANGED appState
          /\ Set(t, [req[t] EXCEPT !.pc = "end", !.work = "settled", !.out = ReturnsNone])
    /\ UNCHANGED <<_config, _db_manager, _scheduler, _reply_tracker, _app_instance, nextApp>>

\* the five assignments of None, one at a time
ClReset(t) ==
    /\ req[t].pc \in {"reset_config", "reset_db", "reset_sched", "reset_tracker", "reset_app"}
    /\ _config' = IF req[t].pc = "reset_config" THEN None ELSE _config
    /\ _db_manager' = IF req[t].pc = "reset_db" THEN None ELSE _db_manager
    /\ _scheduler' = IF req[t].pc = "reset_sched" THEN None ELSE _scheduler
    /\ _reply_tracker' = IF req[t].pc = "reset_tracker" THEN None ELSE _reply_tracker
    /\ _app_instance' = IF req[t].pc = "reset_app" THEN None ELSE _app_instance
    /\ Set(t, [req[t] EXCEPT
                 !.pc = CASE @ = "reset_config" -> "reset_db"
                          [] @ = "reset_db" -> "reset_sched"
                          [] @ = "reset_sched" -> "reset_tracker"
                          [] @ = "reset_tracker" -> "reset_app"
                          [] @ = "reset_app" -> "end",
                 !.out = IF req[t].pc = "reset_app" THEN ReturnsNone ELSE @])
    /\ UNCHANGED <<appState, nextApp>>

-----------------------------------------------------------------------------
(* Recipient Store Facade: UIDatabase.add_recipient *)

\* Field values are strings, as sequences of characters.
FirstNames == {Absent, <<>>, <<" ">>, <<"J">>}

Companies == {<<>>, <<"C">>}

EmailInputs == {<<>>, <<"a">>, <<"A">>, <<" ", "a", " ">>, <<"b">>}

\* Python truthiness of dict.get(key): None and '' are false.
Truthy(v) == v # Absent /\ v # <<>>

IsSpace(c) == c = " "

RECURSIVE LStrip(_)
LStrip(s) == IF s # <<>> /\ IsSpace(Head(s)) THEN LStrip(Tail(s)) ELSE s

RECURSIVE RStrip(_)
RStrip(s) == IF s # <<>> /\ IsSpace(s[Len(s)]) THEN RStrip(SubSeq(s, 1, Len(s) - 1)) ELSE s

\* str.strip()
Strip(s) == RStrip(LStrip(s))

LowerChar(c) == CASE c = "A" -> "a" [] c = "J" -> "j" [] c = "C" -> "c" [] OTHER -> c

\* str.lower()
Lower(s) == [i \in 1..Len(s) |-> LowerChar(s[i])]

\* The email as the recipient row stores it: recipient_data['email'].strip().lower()
NormalizedEmail(d) == Lower(Strip(d.email))

SetAdd(t, r) == add' = [add EXCEPT ![t] = r] /\ UNCHANGED otherThanStore

\* RecipientRepository.get_by_email(email): the rows whose email is `email`.
GetByEmail(email) == {r \in recipients : r.email = email}

\* Recipient.validate(): the required fields of the built Recipient are not empty.
RecipientValid(d) ==
    /\ Strip(d.first_name) # <<>>
    /\ Strip(d.company) # <<>>
    /\ NormalizedEmail(d) # <<>>

HasNameAndCompany(d) == Truthy(d.first_name) /\ Truthy(d.company)

\* `if not all([...get('first_name'), ...get('company'), ...get('email')])`
HasRequiredFields(d) == Truthy(d.first_name) /\ Truthy(d.company) /\ Truthy(d.email)

\* The email the duplicate check looks up: recipient_data['email']
LookupEmail(d) == d.email

\* An earlier call succeeded for the same normalized email: its recipient row
\* and its three sequence steps are in the store.
AddedBefore(d) ==
    \E r \in recipients :
        /\ r.email = NormalizedEmail(d)
        /\ \A k \in 1..3 : \E e \in email_sequence : e.recipient_id = r.id /\ e.step = k

AddCall(t, d) ==
    /\ add[t].pc = "idle"
    /\ SetAdd(t, [IdleAdd EXCEPT !.pc = "validate", !.data = d,
                    !.dupAtStart = AddedBefore(d),
                    !.rowAtStart = \E r \in recipients : r.email = NormalizedEmail(d)])
    /\ UNCHANGED <<recipients, email_sequence, nextId>>

\* Validate input data
AddValidate(t) ==
    /\ add[t].pc = "validate"
    /\ IF HasRequiredFields(add[t].data)
       THEN SetAdd(t, [add[t] EXCEPT !.pc = "check_dup"])
       ELSE SetAdd(t, [add[t] EXCEPT !.pc = "end", !.out = Tuple(FALSE, "Missing required fields")])
    /\ UNCHANGED <<recipients, email_sequence, nextId>>

\* Check for duplicate email; build the Recipient; recipient.validate()
AddCheckDup(t) ==
    /\ add[t].pc = "check_dup"
    /\ \/ SetAdd(t, [add[t] EXCEPT !.pc = "end", !.fault = TRUE, !.touched = TRUE,
                                    !.out = Tuple(FALSE, "Database error")])
       \/ IF GetByEmail(LookupEmail(add[t].data)) # {}
          THEN SetAdd(t, [add[t] EXCEPT !.pc = "end", !.touched = TRUE,
                                       !.out = Tuple(FALSE, "already exists")])
          ELSE IF ~RecipientValid(add[t].data)
               THEN SetAdd(t, [add[t] EXCEPT !.pc = "end", !.touched = TRUE,
                                            !.out = Tuple(FALSE, "Invalid recipient data")])
               ELSE SetAdd(t, [add[t] EXCEPT !.pc = "insert", !.touched = TRUE])
    /\ UNCHANGED <<recipients, email_sequence, nextId>>

EmailNeverTaken(email) == FALSE

\* The recipients table holds each email once: RecipientRepository.create
\* fails for an email that a row already has.
EmailTaken(email) == \E r \in recipients : r.email = email

\* recipient_id = await self.recipient_repo.create(recipient); a write may fail.
AddInsert(t) ==
    /\ add[t].pc = "insert"
    /\ \/ /\ EmailTaken(NormalizedEmail(add[t].data))
          /\ SetAdd(t, [add[t] EXCEPT !.pc = "end", !.out = Tuple(FALSE, "Database error")])
          /\ UNCHANGED <<recipients, nextId>>
       \/ /\ SetAdd(t, [add[t] EXCEPT !.pc = "end", !.fault = TRUE, !.out = Tuple(FALSE, "Database error")])
          /\ UNCHANGED <<recipients, nextId>>
       \/ /\ ~EmailTaken(NormalizedEmail(add[t].data))
          /\ recipients' = recipients \cup
                 {[id |-> nextId, email |-> NormalizedEmail(add[t].data), status |-> "pending"]}
          /\ nextId' = nextId + 1
          /\ SetAdd(t, [add[t] EXCEPT !.pc = "steps", !.rid = nextId])
    /\ UNCHANGED email_sequence

EmailSequenceSent(recipient_id, step) ==
    [recipient_id |-> recipient_id, step |-> step, sent |-> TRUE, replied |-> FALSE]

\* EmailSequence(recipient_id=..., step=..., scheduled_at=...): a step that is
\* neither sent nor replied.
EmailSequence(recipient_id, step) ==
    [recipient_id |-> recipient_id, step |-> step, sent |-> FALSE, replied |-> FALSE]

\* for step in [1, 2, 3]: await self.sequence_repo.create(EmailSequence(...))
AddStep(t) ==
    /\ add[t].pc = "steps"
    /\ \/ /\ SetAdd(t, [add[t] EXCEPT !.pc = "end", !.fault = TRUE, !.out = Tuple(FALSE, "Database error")])
          /\ UNCHANGED email_sequence
       \/ /\ email_sequence' = email_sequence \cup {EmailSequence(add[t].rid, add[t].nsteps + 1)}
          /\ IF add[t].nsteps + 1 = 3
             THEN SetAdd(t, [add[t] EXCEPT !.pc = "end", !.nsteps = 3,
                                          !.out = Tuple(TRUE, "Successfully added")])
             ELSE SetAdd(t, [add[t] EXCEPT !.nsteps = @ + 1])
    /\ UNCHANGED <<recipients, nextId>>

\* loop.run_until_complete(ui_db.add_recipient(...)) hands over the result.
AddReturn(t) ==
    /\ add[t].pc = "end"
    /\ SetAdd(t, IdleAdd)
    /\ UNCHANGED <<recipients, email_sequence, nextId>>

AddData == [first_name : FirstNames, company : Companies, email : EmailInputs]

AddAlone(t) == \A u \in Threads \ {t} : add[u].pc = "idle"

\* add_recipient calls made one after another.
NextStoreSeq ==
    \E t \in Threads :
        \/ AddAlone(t) /\ (\E d \in AddData : AddCall(t, d))
        \/ AddAlone(t) /\ AddValidate(t)
        \/ AddAlone(t) /\ AddCheckDup(t)
        \/ AddAlone(t) /\ AddInsert(t)
        \/ AddAlone(t) /\ AddStep(t)
        \/ AddAlone(t) /\ AddReturn(t)

SpecStoreSeq == Init /\ [][NextStoreSeq]_vars

\* add_recipient calls made by concurrent request threads.
NextStore ==
    \E t \in Threads :
        \/ \E d \in AddData : AddCall(t, d)
        \/ AddValidate(t)
        \/ AddCheckDup(t)
        \/ AddInsert(t)
        \/ AddStep(t)
        \/ AddReturn(t)

SpecStore == Init /\ [][NextStore]_vars

-----------------------------------------------------------------------------

Step(t) ==
   
 /\ \/ \E o \in AllOps : Call(t, o)
    \/ CheckApp(t)
    \/ InitConstruct(t)
    \/ InitCall(t)
    \/ InitAwait(t)
    \/ SetSched(t)
    \/ SetTracker(t)
    \/ CheckTarget(t)
    \/ CallBegin(t)
    \/ CallFinish(t)
    \/ StOpen(t)
    \/ StDbAwait(t)
    \/ StStatusAwait(t)
    \/ StClose(t)
    \/ GetConfig(t)
    \/ ClCheck(t)
    \/ ClAwait(t)
    \/ ClReset(t)
    \/ Return(t)

\* Requests served by concurrent threads.
Next == \E t \in Threads : Step(t)

Spec == Init /\ [][Next]_vars

\* No other request is in flight.
Alone(t) == \A u \in Threads \ {t} : req[u].pc = "idle"

\* Requests served one after another.
NextSeq ==
    \E t \in Threads :
        \/ Alone(t) /\ (\E o \in AllOps : Call(t, o))
        \/ Alone(t) /\ CheckApp(t)
        \/ Alone(t) /\ InitConstruct(t)
        \/ Alone(t) /\ InitCall(t)
        \/ Alone(t) /\ InitAwait(t)
        \/ Alone(t) /\ SetSched(t)
        \/ Alone(t) /\ SetTracker(t)
        \/ Alone(t) /\ CheckTarget(t)
        \/ Alone(t) /\ CallBegin(t)
        \/ Alone(t) /\ CallFinish(t)
        \/ Alone(t) /\ StOpen(t)
        \/ Alone(t) /\ StDbAwait(t)
        \/ Alone(t) /\ StStatusAwait(t)
        \/ Alone(t) /\ StClose(t)
        \/ Alone(t) /\ GetConfig(t)
        \/ Alone(t) /\ ClCheck(t)
        \/ Alone(t) /\ ClAwait(t)
        \/ Alone(t) /\ ClReset(t)
        \/ Alone(t) /\ Return(t)

SpecSeq == Init /\ [][NextSeq]_vars

-----------------------------------------------------------------------------
(* Recipient Store Facade: UIDatabase.get_recipients_with_status *)

\* The status column as a string; a NULL column reads as None.
NullStatus == "<null>"

\* The recipient status looked at before the replied flag.
_calculate_status_by_status(recipient_status, has_replied) ==
    IF recipient_status = "active" THEN "In sequence"
    ELSE IF recipient_status = "pending" THEN "Not started"
    ELSE IF recipient_status = "stopped" THEN "Stopped manually"
    ELSE IF has_replied THEN "Replied (sequence stopped)"
    ELSE "Unknown"

\* The status 'replied' read as a reply.
_calculate_status_of_flag(recipient_status, has_replied) ==
    IF has_replied \/ recipient_status = "replied" THEN "Replied (sequence stopped)"
    ELSE IF recipient_status = "active" THEN "In sequence"
    ELSE IF recipient_status = "pending" THEN "Not started"
    ELSE IF recipient_status = "stopped" THEN "Stopped manually"
    ELSE "Unknown"

\* Calculate human-readable status from database values
_calculate_status(recipient_status, has_replied) ==
    IF has_replied THEN "Replied (sequence stopped)"
    ELSE IF recipient_status = "active" THEN "In sequence"
    ELSE IF recipient_status = "pending" THEN "Not started"
    ELSE IF recipient_status = "stopped" THEN "Stopped manually"
    ELSE "Unknown"

\* The es columns of a recipient that has no email_sequence row: all NULL.
NullStep == [recipient_id |-> None, step |-> None, sent |-> FALSE, replied |-> FALSE]

\* recipients r JOIN email_sequence es ON r.id = es.recipient_id
InnerJoinRows == {<<r, e>> \in recipients \X email_sequence : r.id = e.recipient_id}

\* recipients r LEFT JOIN email_sequence es ON r.id = es.recipient_id
JoinRows ==
    InnerJoinRows \cup
        {<<r, NullStep>> : r \in {x \in recipients : \A e \in email_sequence : e.recipient_id # x.id}}

\* GROUP BY r.id, r.first_name, r.company, r.role, r.email, r.status
Groups == {jr[1] : jr \in JoinRows}

GroupRows(g) == {jr[2] : jr \in {x \in JoinRows : x[1] = g}}

\* MAX(CASE WHEN <P> THEN 1 ELSE 0 END) over a group, given its rows that
\* satisfy P
MaxCase(matches) == IF matches # {} THEN 1 ELSE 0

\* One row of the query's result.
QueryRow(g) ==
    [id |-> g.id, email |-> g.email, status |-> g.status,
     first_mail_sent |-> MaxCase({e \in GroupRows(g) : e.step = 1 /\ e.sent}),
     reminder1_sent |-> MaxCase({e \in GroupRows(g) : e.step = 2 /\ e.sent}),
     reminder2_sent |-> MaxCase({e \in GroupRows(g) : e.step = 3 /\ e.sent}),
     has_replied |-> MaxCase({e \in GroupRows(g) : e.replied})]

\* Python's bool() of an integer column.
Bool(n) == n # 0

\* RecipientStatus(id=row[0], ..., current_status=self._calculate_status(row[5], bool(row[9])))
RecipientStatus(row) ==
    [id |-> row.id, email |-> row.email,
     first_mail_sent |-> Bool(row.first_mail_sent),
     reminder1_sent |-> Bool(row.reminder1_sent),
     reminder2_sent |-> Bool(row.reminder2_sent),
     has_replied |-> Bool(row.has_replied),
     current_status |-> _calculate_status(row.status, Bool(row.has_replied))]

\* ORDER BY r.created_at DESC: the groups in some order, each once (creation
\* times are not part of the modelled rows).
Orderings(S) == {q \in [1..Cardinality(S) -> S] : \A x \in S : \E i \in DOMAIN q : q[i] = x}

\* get_recipients_with_status(): the query and the list built from its rows;
\* [] when the query fails.
GetRecipientsWithStatus ==
    /\ listing.state = "none"
    /\ \/ \E q \in Orderings(Groups) :
            listing' = [state |-> "done", fault |-> FALSE,
                        rows |-> [i \in DOMAIN q |-> RecipientStatus(QueryRow(q[i]))]]
       \/ listing' = [state |-> "done", fault |-> TRUE, rows |-> <<>>]
    /\ UNCHANGED <<bridgeVars, storeVars, restVars, session, now, guard>>

\* The recipients page is rendered from the list.
RenderRecipients ==
    /\ listing.state = "done"
    /\ listing' = NoListing
    /\ UNCHANGED <<bridgeVars, storeVars, restVars, session, now, guard>>

\* Store contents the list is computed from: what the console and the engine
\* that shares the store may have written.
RecipientIds == {1, 2}

StatusValues == {"active", "pending", "stopped", "replied", "", "Active", NullStatus}

StepStates == {"absent", "unsent", "sent", "replied"}

EmailOf(i) == IF i = 1 THEN <<"a">> ELSE <<"b">>

StepRows(i, f) ==
    {[recipient_id |-> i, step |-> k, sent |-> f[k] \in {"sent", "replied"}, replied |-> f[k] = "replied"] :
        k \in {j \in 1..3 : f[j] # "absent"}}

RecipientRows(P, st) == {[id |-> i, email |-> EmailOf(i), status |-> st[i]] : i \in P}

InitView ==
    /\ InitConsole
    /\ _config = None
    /\ _db_manager = None
    /\ _scheduler = None
    /\ _reply_tracker = None
    /\ _app_instance = None
    /\ appState = [a \in Apps |-> "none"]
    /\ nextApp = 1
    /\ req = [t \in Threads |-> FreshRequest("none", "idle")]
    /\ \E P \in SUBSET RecipientIds :
         /\ \E st \in [P -> StatusValues] : recipients = RecipientRows(P, st)
         /\ \E f \in [P -> [1..3 -> StepStates]] : email_sequence = UNION {StepRows(i, f[i]) : i \in P}
    /\ nextId = Cardinality(RecipientIds) + 1
    /\ add = [t \in Threads |-> IdleAdd]

NextView ==
    \/ GetRecipientsWithStatus
    \/ RenderRecipients

SpecView == InitView /\ [][NextView]_vars

-----------------------------------------------------------------------------
(* Operational safety: OperationalSafety.validate_scheduler_operation *)

SchedulerActions == {"start", "stop"}

\* The instants, in seconds, at which the clock is read.
ClockValues == {0, 30, 59, 60, 90, 120}

\* datetime.isoformat(): the instant as a string.
IsoFormat(t) == <<"iso", t>>

\* datetime.fromisoformat(): the instant of a string.
FromIsoFormat(str) == str[2]

\* One key for both kinds of operation.
LastOperationKeyShared(action) == "scheduler_last_start"

\* f'scheduler_last_{action}'
LastOperationKey(action) == IF action = "start" THEN "scheduler_last_start" ELSE "scheduler_last_stop"

WithinMinuteInclusive(current, last_time) == current - last_time <= 60

\* datetime.now() - last_time < timedelta(minutes=1)
WithinMinute(current, last_time) == current - last_time < 60

\* The recent-operation check made before the running / stopped checks.
validate_cooldown_first(action, current_status, sess, current) ==
    IF /\ Truthy(sess[LastOperationKey(action)])
       /\ WithinMinute(current, FromIsoFormat(sess[LastOperationKey(action)]))
    THEN Tuple(FALSE, "Please wait")
    ELSE IF action = "start" /\ current_status THEN Tuple(FALSE, "Scheduler is already running")
    ELSE IF action = "stop" /\ ~current_status THEN Tuple(FALSE, "Scheduler is already stopped")
    ELSE Tuple(TRUE, "Operation allowed")

\* Validate scheduler start/stop operations, for the session content sess at
\* the instant current.
validate_scheduler_operation(action, current_status, sess, current) ==
    IF action = "start" /\ current_status THEN Tuple(FALSE, "Scheduler is already running")
    ELSE IF action = "stop" /\ ~current_status THEN Tuple(FALSE, "Scheduler is already stopped")
    ELSE IF /\ Truthy(sess[LastOperationKey(action)])
            /\ WithinMinute(current, FromIsoFormat(sess[LastOperationKey(action)]))
         THEN Tuple(FALSE, "Please wait")
         ELSE Tuple(TRUE, "Operation allowed")

\* A check that also stamps the session when it allows.
ValidateAndRecordOperation(action, current_status) ==
    /\ guard' = [action |-> action, current_status |-> current_status, session |-> session, at |-> now,
                 out |-> validate_scheduler_operation(action, current_status, session, now)]
    /\ session' = IF validate_scheduler_operation(action, current_status, session, now).ok
                  THEN [session EXCEPT ![LastOperationKey(action)] = IsoFormat(now)]
                  ELSE session
    /\ UNCHANGED <<bridgeVars, storeVars, restVars, listing, now>>

\* A call of validate_scheduler_operation(action, current_status).
ValidateSchedulerOperation(action, current_status) ==
    /\ guard' = [action |-> action, current_status |-> current_status, session |-> session, at |-> now,
                 out |-> validate_scheduler_operation(action, current_status, session, now)]
    /\ UNCHANGED <<bridgeVars, storeVars, restVars, listing, session, now>>

\* session[f'scheduler_last_{action}'] = datetime.now().isoformat()
RecordSchedulerOperation(action) ==
    /\ session' = [session EXCEPT ![LastOperationKey(action)] = IsoFormat(now)]
    /\ UNCHANGED <<bridgeVars, storeVars, restVars, listing, now, guard>>

\* Time passes.
Tick ==
    /\ \E c \in ClockValues : c > now /\ now' = c
    /\ UNCHANGED <<bridgeVars, storeVars, restVars, listing, session, guard>>

NextGuard ==
    \/ \E a \in SchedulerActions, running \in BOOLEAN : ValidateSchedulerOperation(a, running)
    \/ \E a \in SchedulerActions : RecordSchedulerOperation(a)
    \/ Tick

SpecGuard == Init /\ [][NextGuard]_vars

-----------------------------------------------------------------------------
(* Control panel: routes/control.py start_scheduler / stop_scheduler *)

\* The one backend object the module constructs.
ControlApp == 1

\* POST /control/start-scheduler and /control/stop-scheduler: the CSRF check,
\* get_backend_instances() (which initializes the backend on first use, and
\* may fail), and scheduler.start() / scheduler.shutdown().
ControlSchedulerRequest(action, csrf_ok) ==
    LET record(inv, resp) == [action |-> action, running |-> scheduler_running, session |-> session, at |-> now,
                              invoked |-> inv, response |-> resp]
    IN  /\ \/ /\ ~csrf_ok
              /\ ctl' = record(FALSE, "error")
              /\ UNCHANGED <<control, scheduler_running>>
           \/ /\ csrf_ok /\ control._app_instance = None
              /\ control' = [control EXCEPT !._app_instance = ControlApp]
              /\ ctl' = record(FALSE, "not available")
              /\ UNCHANGED scheduler_running
           \/ /\ csrf_ok /\ control._app_instance # None /\ control._scheduler = None
              /\ ctl' = record(FALSE, "not available")
              /\ UNCHANGED <<control, scheduler_running>>
           \/ /\ csrf_ok
              /\ control._scheduler # None \/ control._app_instance = None
              /\ control' = [_app_instance |-> ControlApp, _scheduler |-> ControlApp,
                             _reply_tracker |-> ControlApp]
              /\ \/ /\ scheduler_running' = (action = "start")
                    /\ ctl' = record(TRUE, "success")
                 \/ /\ UNCHANGED scheduler_running
                    /\ ctl' = record(TRUE, "error")
        /\ UNCHANGED <<bridgeVars, storeVars, uiVars, calc, rateVars, form>>

NextControl ==
    \/ \E a \in SchedulerActions, csrf_ok \in BOOLEAN : ControlSchedulerRequest(a, csrf_ok)
    \/ Tick

SpecControl == Init /\ [][NextControl]_vars

-----------------------------------------------------------------------------
(* Operational safety and display helpers (operational_safety.py) *)

\* dict.get(key, default)
DictGet(d, key, default) == IF key \in DOMAIN d THEN d[key] ELSE default

\* The empty dict.
EmptyDict == [k \in {} |-> 0]

PendingCounts == {0, 1, 99, 100, 101, 250}

RateLimitStatuses == {EmptyDict, [near_limit |-> FALSE], [near_limit |-> TRUE]}

Hours == {0, 7, 8, 12, 18, 19, 23}

TooManyPendingInclusive(pending_emails) == pending_emails >= 100

\* if pending_emails > 100
TooManyPending(pending_emails) == pending_emails > 100

\* if current_hour < 8 or current_hour > 18: logger.warning(...)
OutsideBusinessHours(current_hour) == current_hour < 8 \/ current_hour > 18

\* Validate if it's safe to trigger email sending
validate_email_sending_safety(pending_emails, rate_limit_status, current_hour) ==
    IF TooManyPending(pending_emails)
    THEN [ok |-> FALSE, msg |-> "Too many pending emails", warned |-> FALSE]
    ELSE IF DictGet(rate_limit_status, "near_limit", FALSE)
         THEN [ok |-> FALSE, msg |-> "System is near rate limits", warned |-> FALSE]
         ELSE [ok |-> TRUE, msg |-> "Safe to proceed", warned |-> OutsideBusinessHours(current_hour)]

\* A call of validate_email_sending_safety at the hour current_hour.
ValidateEmailSendingSafety(pending_emails, rate_limit_status, current_hour) ==
    /\ calc' = [fn |-> "validate_email_sending_safety", pending_emails |-> pending_emails,
                rate_limit_status |-> rate_limit_status, current_hour |-> current_hour,
                out |-> validate_email_sending_safety(pending_emails, rate_limit_status, current_hour)]
    /\ UNCHANGED <<bridgeVars, storeVars, uiVars, controlVars, rateVars, form>>

\* Elapsed times, in whole seconds, between the last activity and now.
ElapsedValues ==
    {0, 30, 59, 60, 61, 90, 119, 120, 3599, 3600, 3601, 7199, 7200, 86399, 86400, 86401, 90000, 172800}

\* timedelta.days and timedelta.seconds of a difference of e seconds
TimedeltaDays(e) == e \div 86400

TimedeltaSeconds(e) == e % 86400

\* Format last activity timestamp for display; last_activity is Absent or a
\* number of seconds before now.
format_last_activity(last_activity) ==
    IF last_activity = Absent THEN [label |-> "Never", n |-> 0]
    ELSE LET diff == last_activity[2]
         IN  IF TimedeltaDays(diff) > 0 THEN [label |-> "days ago", n |-> TimedeltaDays(diff)]
             ELSE IF TimedeltaSeconds(diff) > 3600
                  THEN [label |-> "hours ago", n |-> TimedeltaSeconds(diff) \div 3600]
             ELSE IF TimedeltaSeconds(diff) > 60
                  THEN [label |-> "minutes ago", n |-> TimedeltaSeconds(diff) \div 60]
             ELSE [label |-> "Just now", n |-> 0]

LastActivities == {Absent} \cup {<<"ago", e>> : e \in ElapsedValues}

\* A call of format_last_activity.
FormatLastActivity(last_activity) ==
    /\ calc' = [fn |-> "format_last_activity", last_activity |-> last_activity,
                out |-> format_last_activity(last_activity)]
    /\ UNCHANGED <<bridgeVars, storeVars, uiVars, controlVars, rateVars, form>>

\* Dashboard metrics: the counts of the recipients table, and dicts that lack
\* keys.
MetricsInputs ==
    {m \in [total_recipients : {0, 1, 10, 20, 40}, active_recipients : {0, 1, 2},
            replied_recipients : {0, 1, 2, 3, 4, 5, 8, 9}, pending_recipients : {0, 1, 2}] :
        m.active_recipients + m.replied_recipients + m.pending_recipients <= m.total_recipients}
    \cup {EmptyDict, [total_recipients |-> 10], [total_recipients |-> 10, pending_recipients |-> 2]}

ReplyRateAtLeast(replied, total, percent) == replied * 100 >= percent * total

\* reply_rate = (replied / total) * 100; reply_rate > percent
ReplyRateOver(replied, total, percent) == replied * 100 > percent * total

\* Generate insights for dashboard display: the kinds of the messages, in order.
get_dashboard_insights(metrics) ==
    LET total == DictGet(metrics, "total_recipients", 0)
        active == DictGet(metrics, "active_recipients", 0)
        replied == DictGet(metrics, "replied_recipients", 0)
        pending == DictGet(metrics, "pending_recipients", 0)
        rate == IF ReplyRateOver(replied, total, 20) THEN <<"excellent">>
                ELSE IF ReplyRateOver(replied, total, 10) THEN <<"good">>
                ELSE IF ReplyRateOver(replied, total, 5) THEN <<"moderate">>
                ELSE <<"plain">>
    IN  IF total = 0 THEN <<"add first recipient">>
        ELSE (IF total > 0 THEN rate ELSE <<>>)
                \o (IF pending > active THEN <<"waiting">> ELSE <<>>)
                \o (IF active > 0 THEN <<"in sequences">> ELSE <<>>)

\* A call of get_dashboard_insights.
GetDashboardInsights(metrics) ==
    /\ calc' = [fn |-> "get_dashboard_insights", metrics |-> metrics, out |-> get_dashboard_insights(metrics)]
    /\ UNCHANGED <<bridgeVars, storeVars, uiVars, controlVars, rateVars, form>>

NextHelpers ==
    \/ \E p \in PendingCounts, st \in RateLimitStatuses, h \in Hours : ValidateEmailSendingSafety(p, st, h)
    \/ \E a \in LastActivities : FormatLastActivity(a)
    \/ \E m \in MetricsInputs : GetDashboardInsights(m)

SpecHelpers == Init /\ [][NextHelpers]_vars

-----------------------------------------------------------------------------
(* Rate limiting: security.py RateLimiter.is_allowed *)

\* Every identifier's requests kept under one key.
RequestsKeyShared(identifier) == "ip1"

\* self.requests[identifier]
RequestsKey(identifier) == identifier

\* The times of seq that are less than window_seconds before current_time.
WithinWindow(seq, current_time, window_seconds) ==
    LET Recent(req_time) == current_time - req_time < window_seconds
    IN  SelectSeq(seq, Recent)

OverLimit(count, max_requests) == count > max_requests

\* if len(self.requests[identifier]) >= max_requests
AtLimit(count, max_requests) == count >= max_requests

SetLimit(t, r) == rl' = [rl EXCEPT ![t] = r]

\* rate_limit: rate_limiter.is_allowed(request.remote_addr, max_requests, window_seconds)
LimitCall(t, identifier) ==
    /\ rl[t].pc = "idle"
    /\ Len(allowed[identifier]) <= MaxHistory
    /\ SetLimit(t, [IdleLimit EXCEPT !.pc = "time", !.identifier = identifier])
    /\ UNCHANGED <<bridgeVars, storeVars, uiVars, controlVars, calc, requests, allowed, form>>

\* current_time = time.time()
LimitTime(t) ==
    /\ rl[t].pc = "time"
    /\ SetLimit(t, [rl[t] EXCEPT !.pc = "ensure", !.current_time = now,
                      !.prior = Len(WithinWindow(allowed[rl[t].identifier], now, WindowSeconds))])
    /\ UNCHANGED <<bridgeVars, storeVars, uiVars, controlVars, calc, requests, allowed, form>>

\* if identifier not in self.requests: self.requests[identifier] = []
LimitEnsure(t) ==
    /\ rl[t].pc = "ensure"
    /\ requests' = IF RequestsKey(rl[t].identifier) \in DOMAIN requests
                   THEN requests
                   ELSE [i \in DOMAIN requests \cup {RequestsKey(rl[t].identifier)} |->
                            IF i \in DOMAIN requests THEN requests[i] ELSE <<>>]
    /\ SetLimit(t, [rl[t] EXCEPT !.pc = "prune_read"])
    /\ UNCHANGED <<bridgeVars, storeVars, uiVars, controlVars, calc, allowed, form>>

\* [req_time for req_time in self.requests[identifier] if current_time - req_time < window_seconds]
LimitPruneRead(t) ==
    /\ rl[t].pc = "prune_read"
    /\ SetLimit(t, [rl[t] EXCEPT !.pc = "prune_write",
                      !.kept = WithinWindow(requests[RequestsKey(rl[t].identifier)],
                                            rl[t].current_time, WindowSeconds)])
    /\ UNCHANGED <<bridgeVars, storeVars, uiVars, controlVars, calc, requests, allowed, form>>

\* self.requests[identifier] = <the list built>
LimitPruneWrite(t) ==
    /\ rl[t].pc = "prune_write"
    /\ requests' = [requests EXCEPT ![RequestsKey(rl[t].identifier)] = rl[t].kept]
    /\ SetLimit(t, [rl[t] EXCEPT !.pc = "check"])
    /\ UNCHANGED <<bridgeVars, storeVars, uiVars, controlVars, calc, allowed, form>>

\* if len(self.requests[identifier]) >= max_requests: return False
LimitCheck(t) ==
    /\ rl[t].pc = "check"
    /\ IF AtLimit(Len(requests[RequestsKey(rl[t].identifier)]), MaxRequests)
       THEN SetLimit(t, [rl[t] EXCEPT !.pc = "end", !.out = FALSE])
       ELSE SetLimit(t, [rl[t] EXCEPT !.pc = "append"])
    /\ UNCHANGED <<bridgeVars, storeVars, uiVars, controlVars, calc, requests, allowed, form>>

\* self.requests[identifier].append(current_time); return True
LimitAppend(t) ==
    /\ rl[t].pc = "append"
    /\ requests' = [requests EXCEPT ![RequestsKey(rl[t].identifier)] = Append(@, rl[t].current_time)]
    /\ allowed' = [allowed EXCEPT ![rl[t].identifier] =
                      Append(WithinWindow(@, now, WindowSeconds), rl[t].current_time)]
    /\ SetLimit(t, [rl[t] EXCEPT !.pc = "end", !.out = TRUE])
    /\ UNCHANGED <<bridgeVars, storeVars, uiVars, controlVars, calc, form>>

\* The decorator goes on to the handler, or aborts with 429.
LimitReturn(t) ==
    /\ rl[t].pc = "end"
    /\ SetLimit(t, IdleLimit)
    /\ UNCHANGED <<bridgeVars, storeVars, uiVars, controlVars, calc, requests, allowed, form>>

LimitAlone(t) == \A u \in Threads \ {t} : rl[u].pc = "idle"

\* is_allowed calls made one after another.
NextRateSeq ==
    \/ \E t \in Threads :
        \/ LimitAlone(t) /\ (\E i \in Identifiers : LimitCall(t, i))
        \/ LimitAlone(t) /\ LimitTime(t)
        \/ LimitAlone(t) /\ LimitEnsure(t)
        \/ LimitAlone(t) /\ LimitPruneRead(t)
        \/ LimitAlone(t) /\ LimitPruneWrite(t)
        \/ LimitAlone(t) /\ LimitCheck(t)
        \/ LimitAlone(t) /\ LimitAppend(t)
        \/ LimitAlone(t) /\ LimitReturn(t)
    \/ Tick

SpecRateSeq == Init /\ [][NextRateSeq]_vars

\* The client whose requests arrive concurrently.
SameClient == {"ip1"}

\* is_allowed calls made by concurrent request threads for one client, within
\* one window.
NextRate ==
    \/ \E t \in Threads :
        \/ \E i \in SameClient : LimitCall(t, i)
        \/ LimitTime(t)
        \/ LimitEnsure(t)
        \/ LimitPruneRead(t)
        \/ LimitPruneWrite(t)
        \/ LimitCheck(t)
        \/ LimitAppend(t)
        \/ LimitReturn(t)

SpecRate == Init /\ [][NextRate]_vars

-----------------------------------------------------------------------------
(* Add-recipient form: routes/recipients.py add_form behind rate_limit and
   secure_form_handler *)

Letters == {"a", "b", "c", "o", "A", "J", "C", "j", "R"}

Digits == {"1"}

\* Every character of s is in the class.
AllIn(s, class) == \A i \in DOMAIN s : s[i] \in class

\* NAME_REGEX = ^[a-zA-Z\s\-\'\.]{1,100}$
NameRegexMatch(s) == Len(s) \in 1..100 /\ AllIn(s, Letters \cup {" ", "-", "'", "."})

\* COMPANY_REGEX = ^[a-zA-Z0-9\s\-\'\.&,()]{1,200}$
CompanyRegexMatch(s) ==
    Len(s) \in 1..200 /\ AllIn(s, Letters \cup Digits \cup {" ", "-", "'", ".", "&", ",", "(", ")"})

\* ^[a-zA-Z0-9\s\-\'\.&,()\/]{1,100}$
RoleRegexMatch(s) ==
    Len(s) \in 1..100 /\ AllIn(s, Letters \cup Digits \cup {" ", "-", "'", ".", "&", ",", "(", ")", "/"})

\* EMAIL_REGEX = ^[a-zA-Z0-9._%+-]+@[a-zA-Z0-9.-]+\.[a-zA-Z]{2,}$
EmailRegexMatch(s) ==
    \E i \in DOMAIN s, j \in DOMAIN s :
        /\ 1 < i /\ i + 1 < j /\ j + 2 <= Len(s)
        /\ s[i] = "@" /\ s[j] = "."
        /\ AllIn(SubSeq(s, 1, i - 1), Letters \cup Digits \cup {".", "_", "%", "+", "-"})
        /\ AllIn(SubSeq(s, i + 1, j - 1), Letters \cup Digits \cup {".", "-"})
        /\ AllIn(SubSeq(s, j + 1, Len(s)), Letters)

\* InputValidator.validate_name
validate_name(name) ==
    /\ name # <<>>
    /\ Len(Strip(name)) >= 1
    /\ Len(Strip(name)) <= 100
    /\ NameRegexMatch(Strip(name))

\* InputValidator.validate_company
validate_company(company) ==
    /\ company # <<>>
    /\ Len(Strip(company)) >= 1
    /\ Len(Strip(company)) <= 200
    /\ CompanyRegexMatch(Strip(company))

\* InputValidator.validate_role: the role is optional.
validate_role(role) ==
    role # <<>> => Len(Strip(role)) <= 100 /\ RoleRegexMatch(Strip(role))

\* InputValidator.validate_email
validate_email(email) ==
    /\ email # <<>>
    /\ Len(Lower(Strip(email))) <= 254
    /\ EmailRegexMatch(Lower(Strip(email)))

\* form_data.get(key, '')
FormGet(form_data, key) == IF form_data[key] = Absent THEN <<>> ELSE form_data[key]

\* FormValidator.get_cleaned_data() after validate_recipient_form(): the
\* stripped fields, the email in lower case.
get_cleaned_data(form_data) ==
    [first_name |-> Strip(FormGet(form_data, "first_name")),
     company |-> Strip(FormGet(form_data, "company")),
     role |-> Strip(FormGet(form_data, "role")),
     email |-> Lower(Strip(FormGet(form_data, "email")))]

\* FormValidator.validate_recipient_form(): no field produced an error.
validate_recipient_form(form_data) ==
    /\ validate_name(get_cleaned_data(form_data).first_name)
    /\ validate_company(get_cleaned_data(form_data).company)
    /\ validate_role(get_cleaned_data(form_data).role)
    /\ validate_email(get_cleaned_data(form_data).email)

\* wtforms DataRequired(): the field has data that is not only whitespace.
DataRequired(v) == v # Absent /\ Strip(v) # <<>>

\* form.validate_on_submit() of WTFAddRecipientForm, for a request whose CSRF
\* token secure_form_handler has accepted: DataRequired on first_name, company
\* and email, and Email() on email, whose verdict comes from the form library.
validate_on_submit(form_data, email_ok) ==
    /\ DataRequired(form_data.first_name)
    /\ DataRequired(form_data.company)
    /\ DataRequired(form_data.email)
    /\ email_ok

FallbackUnchecked(form_data) == TRUE

\* add_form without request.cleaned_data: the handler validates the form data
\* again with FormValidator before it goes on.
FallbackValidation(form_data) == validate_recipient_form(form_data)

\* The client that posts the form.
FormClient == "ip1"

\* request.form.to_dict(): the posted fields.
FormData ==
    [first_name : {Absent, <<>>, <<" ">>, <<"J">>, <<"J", "1">>},
     company : {<<>>, <<"C">>},
     role : {<<>>, <<"#">>},
     email : {<<>>, <<"a">>, <<"a", "@", "b", ".", "c">>,
              <<"a", "@", "b", ".", "c", "o">>, <<" ", "A", "@", "b", ".", "c", "o">>}]

\* The part of recipient_data that add_recipient reads.
RecipientData(cleaned) ==
    [first_name |-> cleaned.first_name, company |-> cleaned.company, email |-> cleaned.email]

FormAlone(t) == \A u \in Threads \ {t} : form[u].state = "none" /\ add[u].pc = "idle"

\* POST /recipients/new, up to the call of ui_db.add_recipient or the response:
\* rate_limit (abort 429), secure_form_handler (CSRF check with abort 403, then
\* FormValidator; the handler is called whether or not the form data is
\* valid, with request.cleaned_data only if it is), and add_form.
FormPost(t, form_data, csrf_ok, email_ok, init_ok) ==
    LET key == RequestsKey(FormClient)
        old == IF key \in DOMAIN requests THEN requests[key] ELSE <<>>
        kept == WithinWindow(old, now, WindowSeconds)
        limited == AtLimit(Len(kept), MaxRequests)
        has_cleaned_data == validate_recipient_form(form_data)
        wtf == validate_on_submit(form_data, email_ok)
        record(st, inv, resp) ==
            [state |-> st, data |-> form_data, wtf |-> wtf, invoked |-> inv, response |-> resp,
             before |-> <<recipients, email_sequence>>]
        recipient_data == RecipientData(get_cleaned_data(form_data))
    IN  /\ form[t].state = "none" /\ add[t].pc = "idle"
        /\ requests' = [i \in DOMAIN requests \cup {key} |->
                           IF i = key THEN (IF limited THEN kept ELSE Append(kept, now))
                           ELSE requests[i]]
        /\ \/ /\ limited
              /\ form' = [form EXCEPT ![t] = record("done", FALSE, "429")]
              /\ UNCHANGED add
           \/ /\ ~limited /\ ~csrf_ok
              /\ form' = [form EXCEPT ![t] = record("done", FALSE, "403")]
              /\ UNCHANGED add
           \/ /\ ~limited /\ csrf_ok /\ ~wtf
              /\ form' = [form EXCEPT ![t] = record("done", FALSE, "form")]
              /\ UNCHANGED add
           \/ /\ ~limited /\ csrf_ok /\ wtf
              /\ ~has_cleaned_data /\ ~FallbackValidation(form_data)
              /\ form' = [form EXCEPT ![t] = record("done", FALSE, "form")]
              /\ UNCHANGED add
           \/ /\ ~limited /\ csrf_ok /\ wtf
              /\ has_cleaned_data \/ FallbackValidation(form_data)
              /\ ~init_ok
              /\ form' = [form EXCEPT ![t] = record("done", FALSE, "form")]
              /\ UNCHANGED add
           \/ /\ ~limited /\ csrf_ok /\ wtf
              /\ has_cleaned_data \/ FallbackValidation(form_data)
              /\ init_ok
              /\ form' = [form EXCEPT ![t] = record("adding", TRUE, "none")]
              /\ add' = [add EXCEPT ![t] =
                            [IdleAdd EXCEPT !.pc = "validate", !.data = recipient_data,
                                            !.dupAtStart = AddedBefore(recipient_data),
                                            !.rowAtStart = \E r \in recipients :
                                                              r.email = NormalizedEmail(recipient_data)]]
        /\ UNCHANGED <<bridgeVars, recipients, email_sequence, nextId, uiVars, controlVars, calc, rl, allowed>>

\* success, message = loop.run_until_complete(ui_db.add_recipient(recipient_data)):
\* redirect to the list on success, the form again otherwise.
FormRespond(t) ==
    /\ form[t].state = "adding" /\ RunUntilComplete(add[t])
    /\ form' = [form EXCEPT ![t] = [@ EXCEPT !.state = "done",
                                      !.response = IF add[t].out.ok THEN "redirect" ELSE "form"]]
    /\ add' = [add EXCEPT ![t] = IdleAdd]
    /\ UNCHANGED <<bridgeVars, recipients, email_sequence, nextId, uiVars, controlVars, calc, rateVars>>

\* The response has been sent.
FormEnd(t) ==
    /\ form[t].state = "done"
    /\ form' = [form EXCEPT ![t] = NoForm]
    /\ UNCHANGED <<bridgeVars, storeVars, uiVars, controlVars, calc, rateVars>>

\* Form posts of one client handled one after another, within one window of
\* the rate limit.
NextForm ==
    \E t \in Threads :
        \/ /\ FormAlone(t)
           /\ \E form_data \in FormData, csrf_ok \in BOOLEAN, email_ok \in BOOLEAN, init_ok \in BOOLEAN :
                 FormPost(t, form_data, csrf_ok, email_ok, init_ok)
        \/ form[t].state = "adding" /\ AddValidate(t)
        \/ form[t].state = "adding" /\ AddCheckDup(t)
        \/ form[t].state = "adding" /\ AddInsert(t)
        \/ form[t].state = "adding" /\ AddStep(t)
        \/ FormRespond(t)
        \/ FormEnd(t)

SpecForm == Init /\ [][NextForm]_vars

-----------------------------------------------------------------------------
(* Properties of the Backend Bridge *)

\* EmailAutomationApp objects that were constructed and not cleaned up or failed.
LiveApps == {a \in Apps : appState[a] \in {"constructed", "initializing", "ready"}}

ReadyApps == {a \in Apps : appState[a] = "ready"}

\* The bridge holds an app instance whose initialize() has not completed.
Partial == _app_instance # None /\ appState[_app_instance] \in {"constructed", "initializing"}

InCall(t) == req[t].pc = "call_await"

OnTracker(t) == req[t].op = "scan_for_replies"

LiveSchedulers == Cardinality(ReadyApps) + Cardinality({t \in Threads : req[t].tmpSched})

LiveDatabases == Cardinality(ReadyApps) + Cardinality({t \in Threads : req[t].tmpDb = "open"})

InitPcs == {"init_construct", "init_call", "init_await", "set_sched", "set_tracker"}

\* C1: concurrent first calls on an uninitialized bridge lead to one
\* initialization only (never two app instances under construction or ready
\* at once), and calls in progress act on one and the same ready session.
C1_OneInitialization ==
    /\ Cardinality(LiveApps) <= 1
    /\ \A t, u \in Threads :
         InCall(t) /\ InCall(u) => req[t].target = req[u].target /\ appState[req[t].target] = "ready"

\* C2: an operation never gets past the initialization guard to test (and
\* report on, or act on) the scheduler / reply tracker while the session it
\* found is still being initialized.
C2_WaitsForInitialization ==
    [][\A t \in Threads :
         (req[t].pc = "check_target" /\ req'[t].pc # "check_target") => ~Partial]_vars

\* C3: when initialization fails inside an operation, the operation reports
\* failure and the bridge is left uninitialized: no app instance, scheduler or
\* reply tracker is retained.
C3_FailedInitLeavesUninitialized ==
    [][\A t \in Threads :
         (req[t].pc \in InitPcs /\ req'[t].inited = "failed")
            => /\ req'[t].out.kind = "tuple" /\ ~req'[t].out.ok
               /\ _app_instance' = None /\ _scheduler' = None /\ _reply_tracker' = None]_vars

\* C4: no two requests execute start/stop/send-cycle/reply-scan against the
\* same scheduler (or the same reply tracker) at the same time.
C4_MutualExclusion ==
    \A t, u \in Threads :
        (t # u /\ InCall(t) /\ InCall(u) /\ OnTracker(t) = OnTracker(u))
           => req[t].target # req[u].target

\* C5: at most one live scheduler and one live database handle exist, and they
\* are the ones the bridge owns.
C5_SingleOwnedInstances ==
    /\ LiveSchedulers <= 1
    /\ LiveDatabases <= 1
    /\ \A a \in ReadyApps : _app_instance = a

\* C6: in a sequential run, while an initialized app instance exists (it was
\* not cleaned up) no operation constructs another one, and every operation
\* that reaches the scheduler / reply tracker acts on that instance's.
C6_InitializedOnce ==
    [][/\ (ReadyApps # {} => nextApp' = nextApp)
       /\ \A t \in Threads : req'[t].pc = "call_await" => ReadyApps' = {req'[t].target}]_vars

\* C6 witness: an operation that did not initialize is acting on the scheduler
\* of the app instance an earlier operation initialized.
C6_Witness ==
    \E t \in Threads :
        /\ InCall(t) /\ req[t].inited = "no"
        /\ req[t].target = _app_instance /\ req[t].target \in ReadyApps

\* C7: when cleanup() ends, whatever happened, the bridge holds none of its
\* objects.
C7_CleanupReleasesAll ==
    [][\A t \in Threads :
         (req[t].op = "cleanup" /\ req[t].pc # "end" /\ req'[t].pc = "end")
            => /\ _config' = None /\ _db_manager' = None /\ _scheduler' = None
               /\ _reply_tracker' = None /\ _app_instance' = None]_vars

\* C8: a bridged operation always ends with a (success, message) tuple, never
\* with an exception, and with success = false when its initialization or its
\* backend call failed.
C8_AlwaysResultTuple ==
    \A t \in Threads :
        (req[t].pc = "end" /\ req[t].op \in BridgeOps)
           => /\ req[t].out.kind = "tuple"
              /\ req[t].out.msg # ""
              /\ (req[t].inited = "failed" \/ req[t].callFailed) => ~req[t].out.ok

\* C8 witness: one operation ended after its initialization failed, another
\* after its backend call failed.
C8_Witness ==
    \E t, u \in Threads :
        /\ req[t].pc = "end" /\ req[t].op \in BridgeOps /\ req[t].inited = "failed"
        /\ req[u].pc = "end" /\ req[u].op \in BridgeOps /\ req[u].callFailed
        /\ req[u].inited = "ok"

\* C9: the caller gets control back only from a coroutine that has ended,
\* with a result, and with none of its awaited work still pending.
C9_ReturnsAfterSettled ==
    [][\A t \in Threads :
         (req[t].pc # "idle" /\ req'[t].pc = "idle")
            => /\ req[t].work # "pending"
               /\ req[t].out.kind # "pending"]_vars

\* C9 witness: a send cycle that ran (after this request initialized the
\* backend) is about to hand its success to the caller.
C9_Witness ==
    \E t \in Threads :
        /\ req[t].pc = "end" /\ req[t].op = "process_due_emails"
        /\ req[t].inited = "ok" /\ req[t].out.ok /\ req[t].work = "settled"

-----------------------------------------------------------------------------
(* Properties of the Recipient Store Facade *)

\* C10: of two add_recipient calls made in sequence with emails that are equal
\* once trimmed and lower-cased, the first (valid input, no row with that
\* email in the store, no storage fault) succeeds, and the second (valid
\* input, no storage fault) fails as "already exists" and creates no recipient
\* row and no sequence-step row.
C10_SequentialDuplicateRejected ==
    \A t \in Threads :
        add[t].pc = "end" =>
            /\ (add[t].dupAtStart /\ HasRequiredFields(add[t].data)
                  /\ RecipientValid(add[t].data) /\ ~add[t].fault) =>
                   /\ add[t].out = Tuple(FALSE, "already exists")
                   /\ add[t].rid = None /\ add[t].nsteps = 0
            /\ (~add[t].rowAtStart /\ HasRequiredFields(add[t].data)
                  /\ RecipientValid(add[t].data) /\ ~add[t].fault) => add[t].out.ok

\* Two calls that ran concurrently for one normalized email have both ended:
\* both started with valid input while no row had the email, and neither met a
\* storage fault.
ConcurrentDuplicates(t, u) ==
    /\ t # u
    /\ add[t].pc = "end" /\ add[u].pc = "end"
    /\ NormalizedEmail(add[t].data) = NormalizedEmail(add[u].data)
    /\ \A x \in {t, u} :
         /\ HasRequiredFields(add[x].data) /\ RecipientValid(add[x].data)
         /\ ~add[x].rowAtStart /\ ~add[x].fault

\* C11: of two concurrent add_recipient calls for the same email exactly one
\* reports success, and the store then holds exactly one recipient with that
\* email.
C11_ConcurrentOneSucceeds ==
    \A t, u \in Threads :
        ConcurrentDuplicates(t, u) =>
            /\ add[t].out.ok # add[u].out.ok
            /\ Cardinality({r \in recipients : r.email = NormalizedEmail(add[t].data)}) = 1

\* C11 witness: both concurrent calls passed the duplicate check and reached
\* the insert, and both have ended.
C11_Witness ==
    \E t, u \in Threads :
        /\ ConcurrentDuplicates(t, u)
        /\ add[t].out.ok
        /\ add[u].out = Tuple(FALSE, "Database error")

\* C12: the call that loses against a concurrent duplicate fails with the
\* "already exists" reason, not with a generic database error.
C12_LoserGetsAlreadyExists ==
    \A t, u \in Threads :
        (ConcurrentDuplicates(t, u) /\ add[t].out.ok)
           => add[u].out = Tuple(FALSE, "already exists")

\* A field that is absent, or empty.
MissingValues == {Absent, <<>>}

\* C13: a call whose first name, company or email is absent or empty ends with
\* the missing-fields failure and without any storage access: no lookup, no
\* recipient row, no sequence-step row.
C13_MissingFieldsNoStorage ==
    \A t \in Threads :
        (add[t].pc = "end" /\ \E v \in MissingValues :
                                   \/ add[t].data.first_name = v
                                   \/ add[t].data.company = v
                                   \/ add[t].data.email = v)
           => /\ add[t].out = Tuple(FALSE, "Missing required fields")
              /\ ~add[t].touched
              /\ add[t].rid = None /\ add[t].nsteps = 0

\* C13 witness: one call ended with an absent first name, another with an
\* empty email.
C13_Witness ==
    \E t, u \in Threads :
        /\ add[t].pc = "end" /\ add[t].data.first_name = Absent
        /\ Truthy(add[t].data.company) /\ Truthy(add[t].data.email)
        /\ add[u].pc = "end" /\ add[u].data.email = <<>>
        /\ Truthy(add[u].data.first_name) /\ Truthy(add[u].data.company)

\* The sequence-step rows of recipient id.
StepsOf(id) == {e \in email_sequence : e.recipient_id = id}

\* C14: a successful call has created one recipient row, with status
\* 'pending', and exactly the steps 1, 2 and 3 for it, none sent or replied;
\* no step written by the console is marked sent.
C14_SuccessCreatesThreeSteps ==
    /\ \A t \in Threads :
         (add[t].pc = "end" /\ add[t].out.ok)
            => /\ {r \in recipients : r.id = add[t].rid}
                    = {[id |-> add[t].rid, email |-> NormalizedEmail(add[t].data), status |-> "pending"]}
               /\ StepsOf(add[t].rid)
                    = {[recipient_id |-> add[t].rid, step |-> k, sent |-> FALSE, replied |-> FALSE] :
                          k \in 1..3}
    /\ \A e \in email_sequence : ~e.sent

\* C14 witness: a call has ended successfully.
C14_Witness ==
    \E t \in Threads : add[t].pc = "end" /\ add[t].out.ok /\ add[t].nsteps = 3

\* C15: whenever no call is in progress, every recipient row has exactly the
\* steps 1, 2 and 3, also after calls that failed part-way.
C15_FailureLeavesStoreUnchanged ==
    (\A t \in Threads : add[t].pc \in {"idle", "end"})
       => \A r \in recipients : {e.step : e \in StepsOf(r.id)} = {1, 2, 3}

\* The entries of the list for recipient id.
EntriesOf(id) == {i \in DOMAIN listing.rows : listing.rows[i].id = id}

\* Some step row of recipient id is marked replied.
AnyReplied(id) == \E e \in email_sequence : e.recipient_id = id /\ e.replied

\* The list was computed from the store (the query did not fail).
Listed == listing.state = "done" /\ ~listing.fault

\* C16: whatever the recipient's status, the derived status of a recipient
\* with at least one step marked replied is 'Replied (sequence stopped)'.
C16_RepliedOverrides ==
    Listed =>
        \A r \in recipients :
            AnyReplied(r.id) =>
                \A i \in EntriesOf(r.id) : listing.rows[i].current_status = "Replied (sequence stopped)"

\* C16 witness: the list shows recipients of status 'active' and 'stopped' with
\* a replied step.
C16_Witness ==
    /\ Listed
    /\ \E r, q \in recipients :
         /\ r.status = "active" /\ q.status = "stopped"
         /\ AnyReplied(r.id) /\ AnyReplied(q.id)
         /\ EntriesOf(r.id) # {} /\ EntriesOf(q.id) # {}

\* C17: without a replied step, 'active' is shown as 'In sequence', 'pending'
\* as 'Not started', 'stopped' as 'Stopped manually' and every other status
\* value, 'replied', empty and NULL included, as 'Unknown'.
C17_StatusMapping ==
    Listed =>
        \A r \in recipients :
            ~AnyReplied(r.id) =>
                /\ EntriesOf(r.id) # {}
                /\ \A i \in EntriesOf(r.id) :
                     listing.rows[i].current_status =
                        CASE r.status = "active" -> "In sequence"
                          [] r.status = "pending" -> "Not started"
                          [] r.status = "stopped" -> "Stopped manually"
                          [] OTHER -> "Unknown"

\* C17 witness: the list shows recipients of status 'replied' and NULL that
\* have no replied step.
C17_Witness ==
    /\ Listed
    /\ \E r, q \in recipients :
         /\ r.status = "replied" /\ q.status = NullStatus
         /\ ~AnyReplied(r.id) /\ ~AnyReplied(q.id)
         /\ EntriesOf(r.id) # {} /\ EntriesOf(q.id) # {}

\* C18: the list has one entry per recipient row, no more and no fewer, and
\* the entry's booleans are those of the recipient's step rows.
C18_OneEntryPerRecipient ==
    Listed =>
        /\ Len(listing.rows) = Cardinality(recipients)
        /\ \A r \in recipients :
             /\ Cardinality(EntriesOf(r.id)) = 1
             /\ \A i \in EntriesOf(r.id) :
                  LET x == listing.rows[i]
                      sent(k) == \E e \in email_sequence : e.recipient_id = r.id /\ e.step = k /\ e.sent
                  IN  /\ x.email = r.email
                      /\ x.first_mail_sent = sent(1)
                      /\ x.reminder1_sent = sent(2)
                      /\ x.reminder2_sent = sent(3)
                      /\ x.has_replied = AnyReplied(r.id)

\* C18 witness: the list was computed for two recipients, one with three step
\* rows (one of them sent), one with no step row at all.
C18_Witness ==
    /\ Listed
    /\ \E r, q \in recipients :
         /\ Cardinality(StepsOf(r.id)) = 3 /\ (\E e \in StepsOf(r.id) : e.sent)
         /\ StepsOf(q.id) = {}
         /\ Len(listing.rows) = 2

-----------------------------------------------------------------------------
(* Properties of the scheduler-operation guard *)

\* The checked operation would repeat the one the scheduler's state rules out.
RuledOut ==
    \/ guard.action = "start" /\ guard.current_status
    \/ guard.action = "stop" /\ ~guard.current_status

\* The attempt of the checked action's kind that the session records.
LastAttempt ==
    guard.session[IF guard.action = "start" THEN "scheduler_last_start" ELSE "scheduler_last_stop"]

\* ... was made less than 60 seconds before the check.
RecentAttempt == LastAttempt # Absent /\ guard.at - LastAttempt[2] < 60

\* C19: 'start' is denied as 'already running' whenever the scheduler runs and
\* 'stop' as 'already stopped' whenever it does not, whatever the last attempt
\* was, a recent one included.
C19_RunningStoppedRules ==
    /\ (guard.action = "start" /\ guard.current_status)
          => guard.out = Tuple(FALSE, "Scheduler is already running")
    /\ (guard.action = "stop" /\ ~guard.current_status)
          => guard.out = Tuple(FALSE, "Scheduler is already stopped")

\* C19 witness: 'start' was checked while the scheduler runs and a start was
\* recorded less than 60 seconds before.
C19_Witness ==
    /\ guard.action = "start" /\ guard.current_status
    /\ RecentAttempt

\* C20: when the running / stopped rules do not deny, the operation is denied
\* exactly if an attempt of the same kind was recorded less than 60 seconds
\* before: denied after 30 s, allowed after 60 s, after 90 s and without any.
C20_CooldownRule ==
    (guard.action \in SchedulerActions /\ ~RuledOut)
       => /\ guard.out.ok = ~RecentAttempt
          /\ ~guard.out.ok => guard.out.msg = "Please wait"

\* C20 witness: 'stop' was checked on a running scheduler exactly 60 seconds
\* after the last recorded stop, while a start was recorded later than that.
C20_Witness ==
    /\ guard.action = "stop" /\ guard.current_status
    /\ LastAttempt # Absent /\ guard.at - LastAttempt[2] = 60
    /\ guard.session["scheduler_last_start"] # Absent
    /\ guard.at - guard.session["scheduler_last_start"][2] < 60
    /\ guard.out.ok

\* C21: a check leaves the recorded timestamps as they were, whether it
\* allows or denies; a timestamp changes only in a step that is not a check,
\* and then only one kind's timestamp, to the current instant.
C21_CheckLeavesCooldown ==
    [][/\ guard' # guard => session' = session
       /\ \A k \in SessionKeys :
            session'[k] # session[k]
               => /\ guard' = guard
                  /\ session'[k] = <<"iso", now>>
                  /\ \A j \in SessionKeys \ {k} : session'[j] = session[j]]_vars

\* C21 witness: a check allowed 'start' after a stop had been recorded, and no
\* start is recorded.
C21_Witness ==
    /\ guard.action = "start" /\ guard.out.ok
    /\ session["scheduler_last_start"] = Absent
    /\ session["scheduler_last_stop"] # Absent

\* The attempt of the other kind that the session records.
OtherAttempt ==
    guard.session[IF guard.action = "start" THEN "scheduler_last_stop" ELSE "scheduler_last_start"]

\* C29: an attempt of the other kind, however recent, does not deny: when the
\* running / stopped rules permit the operation and no attempt of its own kind
\* was recorded in the last 60 seconds, it is allowed.
C29_CooldownPerKind ==
    (guard.action \in SchedulerActions /\ ~RuledOut /\ OtherAttempt # Absent /\ ~RecentAttempt)
       => guard.out = Tuple(TRUE, "Operation allowed")

\* C29 witness: 'stop' was checked on a running scheduler less than 60 seconds
\* after a recorded start, with no stop recorded, and allowed.
C29_Witness ==
    /\ guard.action = "stop" /\ guard.current_status
    /\ OtherAttempt # Absent /\ guard.at - OtherAttempt[2] < 60
    /\ LastAttempt = Absent
    /\ guard.out.ok

-----------------------------------------------------------------------------
(* Properties of the control panel *)

\* C22: a start / stop request that invoked scheduler.start() /
\* scheduler.shutdown() was one the guard's rules allow (no start on a running
\* scheduler, no stop on a stopped one, no repeat of its kind within 60
\* seconds), and its attempt is recorded in the session.
C22_ControlGuarded ==
    ctl.invoked =>
        /\ ~(ctl.action = "start" /\ ctl.running)
        /\ ~(ctl.action = "stop" /\ ~ctl.running)
        /\ \A k \in SessionKeys :
             (k = "scheduler_last_start") = (ctl.action = "start")
                => /\ ctl.session[k] # Absent => ctl.at - ctl.session[k][2] >= 60
                   /\ session[k] # Absent /\ session[k][2] >= ctl.at

-----------------------------------------------------------------------------
(* Properties of the safety and display helpers *)

\* C23: the bulk-send check denies exactly when more than 100 emails are
\* pending or the rate-limit status signals near-limit; 100 pending is allowed,
\* and the hour of the day never denies, it only warns.
C23_BulkSendSafety ==
    calc.fn = "validate_email_sending_safety" =>
        /\ calc.out.ok =
             ~(\/ calc.pending_emails > 100
               \/ calc.rate_limit_status = [near_limit |-> TRUE])
        /\ calc.out.warned => calc.out.ok

\* C23 witness: exactly 100 emails pending at 23h, no near-limit signal:
\* allowed, with a warning.
C23_Witness ==
    /\ calc.fn = "validate_email_sending_safety"
    /\ calc.pending_emails = 100 /\ calc.current_hour = 23
    /\ calc.rate_limit_status = EmptyDict
    /\ calc.out.ok /\ calc.out.warned

\* C24: 'Never' for an absent timestamp; otherwise the largest of days, hours
\* and minutes whose floored count is at least 1, with that count, and 'Just
\* now' only below one minute.
C24_LargestUnit ==
    calc.fn = "format_last_activity" =>
        IF calc.last_activity = Absent THEN calc.out.label = "Never"
        ELSE LET e == calc.last_activity[2]
             IN  calc.out =
                    IF e \div 86400 >= 1 THEN [label |-> "days ago", n |-> e \div 86400]
                    ELSE IF e \div 3600 >= 1 THEN [label |-> "hours ago", n |-> e \div 3600]
                    ELSE IF e \div 60 >= 1 THEN [label |-> "minutes ago", n |-> e \div 60]
                    ELSE [label |-> "Just now", n |-> 0]

\* C25: with no recipients the only insight is to add a first recipient; with
\* recipients the first insight is the reply rate, banded as excellent above
\* 20%, good above 10%, moderate above 5% (all strictly) and plain otherwise.
C25_InsightsBanding ==
    calc.fn = "get_dashboard_insights" =>
        LET total == IF "total_recipients" \in DOMAIN calc.metrics THEN calc.metrics.total_recipients ELSE 0
            replied == IF "replied_recipients" \in DOMAIN calc.metrics
                       THEN calc.metrics.replied_recipients ELSE 0
        IN  IF total = 0 THEN calc.out = <<"add first recipient">>
            ELSE /\ Len(calc.out) >= 1
                 /\ calc.out[1] =
                      IF 5 * replied > total THEN "excellent"
                      ELSE IF 10 * replied > total THEN "good"
                      ELSE IF 20 * replied > total THEN "moderate"
                      ELSE "plain"
                 /\ \A i \in 2..Len(calc.out) : calc.out[i] \in {"waiting", "in sequences"}

\* C25 witness: 2 replies of 10 recipients, exactly 20%: the rate is good, not
\* excellent.
C25_Witness ==
    /\ calc.fn = "get_dashboard_insights"
    /\ DOMAIN calc.metrics = {"total_recipients", "active_recipients", "replied_recipients",
                              "pending_recipients"}
    /\ calc.metrics.total_recipients = 10 /\ calc.metrics.replied_recipients = 2
    /\ calc.out[1] = "good"

-----------------------------------------------------------------------------
(* Properties of the rate limiter *)

\* The recorded request times of identifier i.
Recorded(i) == IF i \in DOMAIN requests THEN requests[i] ELSE <<>>

\* The number of calls for identifier i that were allowed less than one window
\* before now.
RecentlyAllowed(i) ==
    Cardinality({k \in DOMAIN allowed[i] : now - allowed[i][k] < WindowSeconds})

\* C26: in a sequential run, a call is allowed exactly if fewer than
\* max_requests calls of its identifier were allowed within the window before
\* it: the calls up to max_requests pass, the next one is denied.
C26_AllowsUpToLimit ==
    \A t \in Threads :
        rl[t].pc = "end" => rl[t].out = (rl[t].prior < MaxRequests)

\* C26 witness: a call was denied after max_requests calls of its identifier
\* had been allowed in the window.
C26_Witness ==
    \E t \in Threads : rl[t].pc = "end" /\ ~rl[t].out /\ rl[t].prior = MaxRequests

\* C27: a step of a call changes the recorded requests of the call's own
\* identifier only, and a call is denied only when max_requests calls of its
\* own identifier were allowed within the window.
C27_IdentifiersSeparate ==
    [][/\ \A i \in Identifiers :
            (i \in DOMAIN requests /\ requests'[i] # requests[i])
               => \E t \in Threads : rl[t].identifier = i /\ rl[t].pc # "idle" /\ rl'[t] # rl[t]
       /\ \A t \in Threads :
            (rl[t].pc # "end" /\ rl'[t].pc = "end" /\ ~rl'[t].out)
               => Cardinality({k \in DOMAIN allowed[rl[t].identifier] :
                                  rl[t].current_time - allowed[rl[t].identifier][k] < WindowSeconds})
                     >= MaxRequests]_vars

\* C27 witness: one identifier has used up its quota, and a call of the other
\* identifier has been allowed after that.
C27_Witness ==
    /\ RecentlyAllowed("ip1") = MaxRequests
    /\ \E t \in Threads :
         /\ rl[t].pc = "end" /\ rl[t].identifier = "ip2" /\ rl[t].out
         /\ rl[t].prior = 0 /\ rl[t].current_time = now
         /\ \A k \in DOMAIN allowed["ip1"] : allowed["ip1"][k] <= now

\* C30: with concurrent calls, no more than max_requests calls of an
\* identifier are allowed within one window, and whenever no call is in
\* progress every allowed request of the window is among the recorded ones.
C30_ConcurrentLimit ==
    \A i \in Identifiers :
        /\ RecentlyAllowed(i) <= MaxRequests
        /\ (\A t \in Threads : rl[t].pc \in {"idle", "end"})
              => RecentlyAllowed(i) <= Len(Recorded(i))

-----------------------------------------------------------------------------
(* Properties of the add-recipient form *)

\* The posted data fails form validation: a required field is missing or
\* blank, or the email does not have the form local@domain.tld.
FailsFormValidation(d) ==
    \/ d.first_name \in MissingValues \/ Strip(d.first_name) = <<>>
    \/ d.company \in MissingValues \/ Strip(d.company) = <<>>
    \/ d.email \in MissingValues \/ Strip(d.email) = <<>>
    \/ ~EmailRegexMatch(Lower(Strip(d.email)))

\* C28: a POST of the add form that the rate limit and the CSRF check let
\* through and whose data fails form validation never calls add_recipient and
\* is answered with the form page again; no POST whose data fails form
\* validation, let through or not, calls add_recipient or changes the store.
C28_InvalidPostRerenders ==
    \A t \in Threads :
        (form[t].state # "none" /\ FailsFormValidation(form[t].data))
           => /\ ~form[t].invoked
              /\ add[t] = IdleAdd
              /\ form[t].before = <<recipients, email_sequence>>
              /\ form[t].state = "done"
              /\ form[t].response \notin {"429", "403"} => form[t].response = "form"

\* C28 witness: with a recipient stored, a POST that the form library accepted
\* but whose data fails form validation was answered with the form page.
C28_Witness ==
    \E t \in Threads :
        /\ form[t].state = "done" /\ form[t].response = "form"
        /\ FailsFormValidation(form[t].data) /\ form[t].wtf
        /\ recipients # {}

====
